---- MODULE Spec2Model ----
(***************************************************************************)
(* A model of the insights-mcp store (InsightsDatabase over SQLite with an *)
(* external-content FTS5 index kept by triggers) and of the MCP tool       *)
(* handlers that resolve the context before they call the store.           *)
(*                                                                         *)
(* Text (content, serialized metadata, search queries) is a sequence of    *)
(* lexemes: words, the FTS5 keyword NOT, and JSON punctuation.  The FTS5   *)
(* tokenizer and the FTS5 query parser read the same text differently, and *)
(* both are modelled.                                                      *)
(***************************************************************************)
EXTENDS Integers, Sequences, FiniteSets, TLC

VARIABLES
  insights,      \* the primary table: a set of rows, each with its rowid
  insights_fts,  \* the FTS5 index: postings per rowid and the column totals
  clock,         \* the last value Date.now() returned
  uuids,         \* how many ids randomUUID has handed out
  ops,           \* how many save/update/delete calls were made
  mode,          \* 'stdio' or 'http', fixed by createInsightsServer
  ret,           \* the call that completed last and what it returned
  deleted,       \* history: the ids for which delete returned true
  pages,         \* history: the pages a caller has read one after the other
  argv,          \* the command line: the value of --db-path, when given
  env,           \* process.env: INSIGHTS_MCP_DB_PATH, when set
  files,         \* the database files that exist: path |-> content when last left
  path,          \* the file the store was opened on
  dbOpen,        \* whether the connection of the store is open
  inflight       \* the call of the store that has run the first of its two statements

vars == <<insights, insights_fts, clock, uuids, ops, mode, ret, deleted, pages,
          argv, env, files, path, dbOpen, inflight>>

(* what the methods of an open store leave alone *)
fixed == <<argv, env, files, path, dbOpen, inflight>>

----------------------------------------------------------------------------
(* Bounds *)

MaxIds == 2     \* ids randomUUID hands out, hence also the largest rowid
MaxClock == 1   \* Date.now() ranges over 0..MaxClock
MaxOps == 3     \* save/update/delete calls in one behaviour

----------------------------------------------------------------------------
(* Optional values: undefined / NULL is the empty sequence *)

None == <<>>
Some(x) == <<x>>

(* Input domains *)

Ids == 1..MaxIds
Cwd == "/proj"
Contexts == {"/proj", "global"}
Contents == { <<"alpha">>, <<"alpha", "NOT", "beta">> }
Metadatas == { << <<"tag", "beta">> >> }
EmptyObject == <<>>
Queries == Contents \cup { <<"beta">>, <<>>, <<"alpha", ",">> }
Limits == {1, 20}
ListLimits == Limits \cup {0}
Offsets == {0, 1}

OptContexts == {None} \cup {Some(c) : c \in Contexts}
OptContents == {None} \cup {Some(c) : c \in Contents}
OptMetadatas == {None} \cup {Some(m) : m \in Metadatas}
UpdateMetadatas == OptMetadatas \cup {Some(EmptyObject)}

----------------------------------------------------------------------------
(* JSON.stringify / JSON.parse of a metadata object.  An object is the     *)
(* sequence of its <<key, value>> pairs in insertion order; its JSON text  *)
(* is { k : v , k : v }.                                                   *)

RECURSIVE StringifyPairs(_)
StringifyPairs(o) ==
  IF Len(o) = 0 THEN <<>>
  ELSE <<o[1][1], ":", o[1][2]>> \o
       (IF Len(o) = 1 THEN <<>> ELSE <<",">> \o StringifyPairs(Tail(o)))

JSONStringify(o) == <<"{">> \o StringifyPairs(o) \o <<"}">>

RECURSIVE ParsePairs(_)
ParsePairs(t) ==
  IF Len(t) < 3 THEN <<>>
  ELSE << <<t[1], t[3]>> >> \o
       (IF Len(t) > 4 THEN ParsePairs(SubSeq(t, 5, Len(t))) ELSE <<>>)

JSONParse(t) == ParsePairs(SubSeq(t, 2, Len(t) - 1))

(* JavaScript truthiness of an optional string / object *)
TruthyText(x) == x # None /\ Len(x[1]) > 0
TruthyObject(x) == x # None
TruthyString(x) == x # None /\ x[1] # ""

----------------------------------------------------------------------------
(* The FTS5 unicode61 tokenizer: punctuation separates, words are folded   *)
(* to lower case.                                                          *)

Punctuation == {"{", "}", ":", ","}
Fold(lex) == IF lex = "NOT" THEN "not" ELSE lex
IsWord(lex) == lex \notin Punctuation

Tokenize(text) == SelectSeq(text, IsWord)
TokenCount(optText) == IF optText = None THEN 0 ELSE Len(Tokenize(optText[1]))
TokenSet(optText) ==
  IF optText = None THEN {}
  ELSE {Fold(Tokenize(optText[1])[i]) : i \in 1..Len(Tokenize(optText[1]))}

----------------------------------------------------------------------------
(* The FTS5 query parser, for the raw string handed to MATCH.  Bare words  *)
(* next to each other are an implicit AND, the upper-case word NOT is the  *)
(* binary set-difference operator (it binds less tightly than the implicit *)
(* AND and associates to the left), and an empty query, a NOT without an   *)
(* operand on either side, or punctuation is a syntax error.               *)

HasNot(q) == \E i \in 1..Len(q) : q[i] = "NOT"
FirstNot(q) == CHOOSE i \in 1..Len(q) : q[i] = "NOT" /\ \A j \in 1..(i-1) : q[j] # "NOT"

RECURSIVE SplitNot(_)
SplitNot(q) ==
  IF ~HasNot(q) THEN <<q>>
  ELSE <<SubSeq(q, 1, FirstNot(q) - 1)>> \o SplitNot(SubSeq(q, FirstNot(q) + 1, Len(q)))

QuerySyntaxOk_Lenient(q) == TRUE

QuerySyntaxOk(q) ==
  /\ \A i \in 1..Len(q) : IsWord(q[i])
  /\ \A g \in 1..Len(SplitNot(q)) : Len(SplitNot(q)[g]) > 0

PhraseTerms(g) == {Fold(g[i]) : i \in 1..Len(g)}

(* whether a document whose indexed terms are `terms` satisfies query q *)
Match(q, terms) ==
  /\ PhraseTerms(SplitNot(q)[1]) \subseteq terms
  /\ \A g \in 2..Len(SplitNot(q)) : ~(PhraseTerms(SplitNot(q)[g]) \subseteq terms)

----------------------------------------------------------------------------
(* The schema of initSchema: the table and the three triggers.             *)
(* insights_fts is an external-content FTS5 table (content='insights'):    *)
(* it stores postings and sizes only, and whenever FTS5 needs the text of  *)
(* a row (to scan the virtual table, or to find the postings it must       *)
(* remove) it reads that row from insights as it is at that moment.        *)

RowIds(tbl) == {r.rowid : r \in tbl}
RowAt(tbl, rowid) == CHOOSE r \in tbl : r.rowid = rowid
MaxOf(S) == CHOOSE x \in S : \A y \in S : y <= x

(* SQLite gives a row of a table without AUTOINCREMENT the largest rowid in use plus one *)
NextRowid(tbl) == IF tbl = {} THEN 1 ELSE MaxOf(RowIds(tbl)) + 1

EmptyFts == [idx |-> <<>>, docsize |-> {}, total |-> [content |-> 0, metadata |-> 0]]

Postings(fts, rowid) ==
  IF rowid \in DOMAIN fts.idx THEN fts.idx[rowid] ELSE [content |-> {}, metadata |-> {}]

(* FTS5 INSERT of (rowid, content, metadata): add the postings, replace the size record, add to the totals *)
FtsInsert(fts, rowid, content, metadata) ==
  [idx |-> [r \in (DOMAIN fts.idx) \cup {rowid} |->
              IF r = rowid
              THEN [content |-> Postings(fts, rowid).content \cup TokenSet(Some(content)),
                    metadata |-> Postings(fts, rowid).metadata \cup TokenSet(metadata)]
              ELSE fts.idx[r]],
   docsize |-> fts.docsize \cup {rowid},
   total |-> [content |-> fts.total.content + TokenCount(Some(content)),
              metadata |-> fts.total.metadata + TokenCount(metadata)]]

(* FTS5 removal of the row `rowid`: the postings removed are those of the  *)
(* text the content table holds for that rowid now, the size record of the *)
(* rowid is removed, and the totals are reduced by the token counts of     *)
(* that text; a total that would go negative is reported as SQLITE_CORRUPT.*)
FtsDeleteCorrupt(tbl, fts, rowid) ==
  \/ fts.total.content < TokenCount(Some(RowAt(tbl, rowid).content))
  \/ fts.total.metadata < TokenCount(RowAt(tbl, rowid).metadata)

FtsDelete(tbl, fts, rowid) ==
  [idx |-> [r \in DOMAIN fts.idx |->
              IF r = rowid
              THEN [content |-> fts.idx[r].content \ TokenSet(Some(RowAt(tbl, rowid).content)),
                    metadata |-> fts.idx[r].metadata \ TokenSet(RowAt(tbl, rowid).metadata)]
              ELSE fts.idx[r]],
   docsize |-> fts.docsize \ {rowid},
   total |-> [content |-> fts.total.content - TokenCount(Some(RowAt(tbl, rowid).content)),
              metadata |-> fts.total.metadata - TokenCount(RowAt(tbl, rowid).metadata)]]

insights_ai_NoContent(fts, new) == FtsInsert(fts, new.rowid, <<>>, new.metadata)

(* AFTER INSERT: INSERT INTO insights_fts(rowid, content, metadata) VALUES (new...) *)
insights_ai(fts, new) == FtsInsert(fts, new.rowid, new.content, new.metadata)

(* AFTER DELETE: DELETE FROM insights_fts WHERE rowid = old.rowid.  tbl is the table *)
(* after the row was deleted; the scan of insights_fts visits the rows of tbl.       *)
insights_ad(tbl, fts, old) ==
  IF old.rowid \in RowIds(tbl)
  THEN [fault |-> FtsDeleteCorrupt(tbl, fts, old.rowid), fts |-> FtsDelete(tbl, fts, old.rowid)]
  ELSE [fault |-> FALSE, fts |-> fts]

(* AFTER UPDATE: UPDATE insights_fts SET content = new.content, metadata = new.metadata *)
(* WHERE rowid = new.rowid.  tbl is the table after the row was updated; FTS5 performs  *)
(* the update as a removal of the row followed by an insert of the new values.          *)
insights_au(tbl, fts, new) ==
  IF new.rowid \in RowIds(tbl)
  THEN [fault |-> FtsDeleteCorrupt(tbl, fts, new.rowid),
        fts |-> FtsInsert(FtsDelete(tbl, fts, new.rowid), new.rowid, new.content, new.metadata)]
  ELSE [fault |-> FALSE, fts |-> fts]

----------------------------------------------------------------------------
(* InsightsDatabase *)

rowToInsight_NoMetadata(row) ==
  [id |-> row.id, content |-> row.content, context |-> row.context, metadata |-> None,
   created_at |-> row.created_at, updated_at |-> row.updated_at]

rowToInsight(row) ==
  [id |-> row.id, content |-> row.content, context |-> row.context,
   metadata |-> IF TruthyText(row.metadata) THEN Some(JSONParse(row.metadata[1])) ELSE None,
   created_at |-> row.created_at, updated_at |-> row.updated_at]

MapInsights(rowsSeq) == [i \in 1..Len(rowsSeq) |-> rowToInsight(rowsSeq[i])]

(* every order in which a statement may return the rows of S *)
Orders(S) == {f \in [1..Cardinality(S) -> S] : \A i, j \in 1..Cardinality(S) : i # j => f[i] # f[j]}

ByCreatedAtDesc_Asc(S) ==
  {f \in Orders(S) : \A i, j \in 1..Cardinality(S) : i < j => f[i].created_at <= f[j].created_at}

(* ORDER BY created_at DESC; the order among equal created_at is the engine's *)
ByCreatedAtDesc(S) ==
  {f \in Orders(S) : \A i, j \in 1..Cardinality(S) : i < j => f[i].created_at >= f[j].created_at}

(* the rows list selects: WHERE context = ? only when context is truthy *)
ListRows(tbl, context) ==
  {r \in tbl : TruthyString(context) => r.context = context[1]}

(* the order the statement of list returns its rows in.  SQL leaves the    *)
(* order among equal created_at to the engine; the engine returns the same *)
(* order every time the statement runs over the same rows, whatever LIMIT  *)
(* and OFFSET are bound to.                                                *)
ListOrder(tbl, context) == CHOOSE f \in ByCreatedAtDesc(ListRows(tbl, context)) : TRUE

Window_IgnoresOffset(order, limit, offset) ==
  IF limit = 0 THEN <<>>
  ELSE SubSeq(order, 1, IF limit > Len(order) THEN Len(order) ELSE limit)

Window_ZeroMeansAll(order, limit, offset) ==
  IF offset >= Len(order) THEN <<>>
  ELSE SubSeq(order, offset + 1,
              IF limit = 0 \/ offset + limit > Len(order) THEN Len(order) ELSE offset + limit)

(* LIMIT limit OFFSET offset *)
Window(order, limit, offset) ==
  IF offset >= Len(order) \/ limit = 0 THEN <<>>
  ELSE SubSeq(order, offset + 1, IF offset + limit > Len(order) THEN Len(order) ELSE offset + limit)

(* the rows search selects: insights_fts JOIN insights ON rowid, MATCH ?, and the context filter *)
IndexedTerms(fts, rowid) == Postings(fts, rowid).content \cup Postings(fts, rowid).metadata

SearchRows_NoContextFilter(tbl, fts, query, context) ==
  {r \in tbl : Match(query, IndexedTerms(fts, r.rowid))}

SearchRows(tbl, fts, query, context) ==
  {r \in tbl : /\ Match(query, IndexedTerms(fts, r.rowid))
               /\ TruthyString(context) => r.context = context[1]}

NoPages == [start |-> 0, items |-> <<>>]

(* the database files a process can be pointed at *)
EmptyDatabase == [tbl |-> {}, fts |-> EmptyFts]

DefaultPath == "~/.insights-mcp/insights.db"
FlagPath == "/flag.db"
EnvPath == "/env.db"

(* no call of the store is between two of its statements *)
NoCall ==
  [op |-> "none", id |-> 0, content |-> None, metadata |-> None, context |-> None,
   query |-> None, limit |-> 0, offset |-> 0, total |-> 0, existing |-> None,
   done |-> FALSE]

(* a process started without --db-path and without INSIGHTS_MCP_DB_PATH,   *)
(* after new InsightsDatabase(undefined) created the default file          *)
Constructed ==
  /\ argv = [dbPath |-> None]
  /\ env = [INSIGHTS_MCP_DB_PATH |-> None]
  /\ files = [p \in {DefaultPath} |-> EmptyDatabase]
  /\ path = Some(DefaultPath)
  /\ dbOpen = TRUE
  /\ inflight = NoCall

BlankRet ==
  [op |-> "none", tool |-> "", fault |-> "", calls |-> 0, id |-> 0,
   content |-> None, context |-> None, provided |-> None, metadata |-> None,
   query |-> None, limit |-> 0, offset |-> 0,
   results |-> <<>>, total |-> 0, hasMore |-> FALSE, flag |-> FALSE]

(* get, list and search only read the store: called at any point of a     *)
(* behaviour they return what they return as the last call up to that      *)
(* point.  A behaviour therefore ends with the first of them (or with a    *)
(* call the server rejected), and ret is then the answer to that call in   *)
(* the store as the calls before it left it.                               *)
Open == ret.op \notin {"get", "list", "search", "rejected"}

CorruptFault == "SqliteError: database disk image is malformed"
SyntaxFault == "SqliteError: fts5: syntax error"
ContextFault == "Error: context parameter is required in HTTP mode"
NotOpenFault == "TypeError: The database connection is not open"

PrepareThrows_Never == FALSE

(* this.db.prepare(sql): better-sqlite3 throws once close() has closed the connection *)
PrepareThrows == ~dbOpen

AfterStatement_KeepsWrite(fault, before, after) == after

(* stmt.run(...): a statement that fails, in the table or in one of its    *)
(* triggers, is rolled back as a whole                                     *)
AfterStatement(fault, before, after) == IF fault THEN before ELSE after

(* Date.now(): the clock does not run backwards and may stay within one millisecond *)
Now(t) == t \in {clock, clock + 1} /\ t <= MaxClock

(* save(content, context, metadata?) reading the time t; r0 carries the caller's part of ret *)
DbSave(content, context, metadata, t, r0) ==
  LET id == uuids + 1
      metadataJson == IF TruthyObject(metadata) THEN Some(JSONStringify(metadata[1])) ELSE None
      new == [rowid |-> NextRowid(insights), id |-> id, content |-> content, context |-> context,
              metadata |-> metadataJson, created_at |-> t, updated_at |-> t]
  IN /\ Open
     /\ ops < MaxOps
     /\ uuids < MaxIds
     /\ Now(t)
     /\ clock' = t
     /\ uuids' = id
     /\ ops' = ops + 1
     /\ IF PrepareThrows
        THEN /\ ret' = [r0 EXCEPT !.op = "save", !.calls = 1, !.fault = NotOpenFault]
             /\ UNCHANGED <<insights, insights_fts>>
        ELSE /\ insights' = insights \cup {new}
             /\ insights_fts' = insights_ai(insights_fts, new)
             /\ ret' = [r0 EXCEPT !.op = "save", !.calls = 1, !.id = id,
                                  !.content = Some(content),
                                  !.context = Some(context), !.metadata = metadata,
                                  !.results = << [id |-> id, content |-> content,
                                                  context |-> context, metadata |-> metadata,
                                                  created_at |-> t, updated_at |-> t] >>]
     /\ UNCHANGED <<mode, deleted, pages, fixed>>

Save(content, context, metadata, t) == DbSave(content, context, metadata, t, BlankRet)

GetRows_IgnoresId(tbl, id) == tbl

(* get(id): SELECT * FROM insights WHERE id = ? *)
GetRows(tbl, id) == {r \in tbl : r.id = id}

DbGet(id, r0) ==
  /\ Open
  /\ ret' = IF PrepareThrows
            THEN [r0 EXCEPT !.op = "get", !.calls = 1, !.id = id, !.fault = NotOpenFault]
            ELSE [r0 EXCEPT !.op = "get", !.calls = 1, !.id = id,
                             !.results = IF GetRows(insights, id) = {} THEN <<>>
                                         ELSE << rowToInsight(CHOOSE r \in GetRows(insights, id) : TRUE) >>,
                             !.flag = GetRows(insights, id) # {}]
  /\ UNCHANGED <<insights, insights_fts, clock, uuids, ops, mode, deleted, pages, fixed>>

Get(id) == DbGet(id, BlankRet)

(* updates.content ?? existing.content and updates.metadata ?? existing.metadata *)
MergedContent(content, existing) == IF content # None THEN content[1] ELSE existing.content

MergedMetadata_Replace(metadata, existing) == metadata

MergedMetadata(metadata, existing) == IF metadata # None THEN metadata ELSE existing.metadata

UpdatedRow_KeepsUpdatedAt(row, content, metadataJson, t) ==
  [row EXCEPT !.content = content, !.metadata = metadataJson]

UpdatedRow_TouchesCreatedAt(row, content, metadataJson, t) ==
  [row EXCEPT !.content = content, !.metadata = metadataJson, !.created_at = t, !.updated_at = t]

(* UPDATE insights SET content = ?, metadata = ?, updated_at = ? WHERE id = ? *)
UpdatedRow(row, content, metadataJson, t) ==
  [row EXCEPT !.content = content, !.metadata = metadataJson, !.updated_at = t]

(* update(id, {content?, metadata?}) reading the time t when the row exists *)
DbUpdate(id, content, metadata, t, r0) ==
  /\ Open
  /\ ops < MaxOps
  /\ ops' = ops + 1
  /\ UNCHANGED <<uuids, mode, deleted, pages, fixed>>
  /\ IF PrepareThrows
     THEN /\ t = clock
          /\ ret' = [r0 EXCEPT !.op = "update", !.calls = 1, !.id = id,
                                     !.content = content, !.metadata = metadata,
                                     !.fault = NotOpenFault]
          /\ UNCHANGED <<insights, insights_fts, clock>>
     ELSE IF GetRows(insights, id) = {}
     THEN /\ t = clock
          /\ ret' = [r0 EXCEPT !.op = "update", !.calls = 1, !.id = id,
                                     !.content = content, !.metadata = metadata]
          /\ UNCHANGED <<insights, insights_fts, clock>>
     ELSE LET row == CHOOSE r \in GetRows(insights, id) : TRUE
              existing == rowToInsight(row)
              newContent == MergedContent(content, existing)
              newMetadata == MergedMetadata(metadata, existing)
              metadataJson == IF TruthyObject(newMetadata)
                              THEN Some(JSONStringify(newMetadata[1])) ELSE None
              new == UpdatedRow(row, newContent, metadataJson, t)
              tbl == (insights \ {row}) \cup {new}
              trig == insights_au(tbl, insights_fts, new)
          IN /\ Now(t)
             /\ clock' = t
             /\ insights' = AfterStatement(trig.fault, insights, tbl)
             /\ insights_fts' = AfterStatement(trig.fault, insights_fts, trig.fts)
             /\ ret' = IF trig.fault
                       THEN [r0 EXCEPT !.op = "update", !.calls = 1, !.id = id,
                                             !.content = content, !.metadata = metadata,
                                             !.fault = CorruptFault]
                       ELSE [r0 EXCEPT !.op = "update", !.calls = 1, !.id = id,
                                             !.content = content, !.metadata = metadata,
                                             !.flag = TRUE,
                                             !.results = << [existing EXCEPT
                                                               !.content = newContent,
                                                               !.metadata = newMetadata,
                                                               !.updated_at = t] >>]

Update(id, content, metadata, t) == DbUpdate(id, content, metadata, t, BlankRet)

Delete_KeepsRow(id) ==
  /\ Open
  /\ ops < MaxOps
  /\ ops' = ops + 1
  /\ UNCHANGED <<insights, insights_fts, clock, uuids, mode, pages, fixed>>
  /\ deleted' = IF GetRows(insights, id) = {} THEN deleted ELSE deleted \cup {id}
  /\ ret' = [BlankRet EXCEPT !.op = "delete", !.calls = 1, !.id = id,
                             !.flag = (GetRows(insights, id) # {})]

Delete_ReportsTrue(id) ==
  /\ Open
  /\ ops < MaxOps
  /\ ops' = ops + 1
  /\ UNCHANGED <<clock, uuids, mode, pages, fixed>>
  /\ insights' = insights \ GetRows(insights, id)
  /\ insights_fts' = insights_fts
  /\ deleted' = deleted \cup {id}
  /\ ret' = [BlankRet EXCEPT !.op = "delete", !.calls = 1, !.id = id, !.flag = TRUE]

(* delete(id) *)
DbDelete(id, r0) ==
  /\ Open
  /\ ops < MaxOps
  /\ ops' = ops + 1
  /\ UNCHANGED <<clock, uuids, mode, pages, fixed>>
  /\ IF PrepareThrows
     THEN /\ ret' = [r0 EXCEPT !.op = "delete", !.calls = 1, !.id = id,
                                     !.fault = NotOpenFault]
          /\ UNCHANGED <<insights, insights_fts, deleted>>
     ELSE IF GetRows(insights, id) = {}
     THEN /\ ret' = [r0 EXCEPT !.op = "delete", !.calls = 1, !.id = id]
          /\ UNCHANGED <<insights, insights_fts, deleted>>
     ELSE LET row == CHOOSE r \in GetRows(insights, id) : TRUE
              tbl == insights \ {row}
              trig == insights_ad(tbl, insights_fts, row)
          IN IF trig.fault
             THEN /\ ret' = [r0 EXCEPT !.op = "delete", !.calls = 1, !.id = id,
                                             !.fault = CorruptFault]
                  /\ UNCHANGED <<insights, insights_fts, deleted>>
             ELSE /\ insights' = tbl
                  /\ insights_fts' = trig.fts
                  /\ deleted' = deleted \cup {id}
                  /\ ret' = [r0 EXCEPT !.op = "delete", !.calls = 1, !.id = id,
                                             !.flag = TRUE]

Delete(id) == DbDelete(id, BlankRet)

(* a caller that pages through a list asks, while hasMore is true, for the *)
(* next page: the same context and limit, the offset moved on by the limit *)
NextPage(context, limit, offset) ==
  /\ ret.op = "list" /\ ret.hasMore /\ ret.limit >= 1
  /\ context = ret.context /\ limit = ret.limit /\ offset = ret.offset + ret.limit

(* list(context?, limit, offset); r0 carries the caller's part of ret *)
DbList(context, limit, offset, r0) ==
  LET total == Cardinality(ListRows(insights, context))
      results == MapInsights(Window(ListOrder(insights, context), limit, offset))
  IN /\ Open \/ NextPage(context, limit, offset)
     /\ IF PrepareThrows
        THEN /\ ret' = [r0 EXCEPT !.op = "list", !.calls = 1, !.context = context,
                                  !.limit = limit, !.offset = offset, !.fault = NotOpenFault]
             /\ pages' = NoPages
        ELSE /\ ret' = [r0 EXCEPT !.op = "list", !.calls = 1, !.context = context,
                                  !.limit = limit, !.offset = offset,
                                  !.results = results, !.total = total,
                                  !.hasMore = (offset + Len(results) < total)]
             /\ pages' = IF NextPage(context, limit, offset)
                         THEN [pages EXCEPT !.items = @ \o results]
                         ELSE [start |-> offset, items |-> results]
     /\ UNCHANGED <<insights, insights_fts, clock, uuids, ops, mode, deleted, fixed>>

List(context, limit, offset) == DbList(context, limit, offset, BlankRet)

(* search(query, context?, limit, offset); ORDER BY rank is the engine's order of the matches *)
DbSearch(query, context, limit, offset, r0) ==
  /\ Open
  /\ IF PrepareThrows
     THEN ret' = [r0 EXCEPT !.op = "search", !.calls = 1, !.query = Some(query),
                            !.context = context, !.limit = limit, !.offset = offset,
                            !.fault = NotOpenFault]
     ELSE IF ~QuerySyntaxOk(query)
     THEN ret' = [r0 EXCEPT !.op = "search", !.calls = 1, !.query = Some(query),
                            !.context = context, !.limit = limit, !.offset = offset,
                            !.fault = SyntaxFault]
     ELSE \E order \in Orders(SearchRows(insights, insights_fts, query, context)) :
            LET total == Cardinality(SearchRows(insights, insights_fts, query, context))
                results == MapInsights(Window(order, limit, offset))
            IN ret' = [r0 EXCEPT !.op = "search", !.calls = 1, !.query = Some(query),
                                 !.context = context, !.limit = limit, !.offset = offset,
                                 !.results = results, !.total = total,
                                 !.hasMore = (offset + Len(results) < total)]
  /\ UNCHANGED <<insights, insights_fts, clock, uuids, ops, mode, deleted, pages, fixed>>

Search(query, context, limit, offset) == DbSearch(query, context, limit, offset, BlankRet)

----------------------------------------------------------------------------
(* createInsightsServer: the tool handlers that resolve the context *)

(* getContext(providedContext): the fault, or the resolved context *)
GetContextThrows(providedContext) == mode = "http" /\ ~TruthyString(providedContext)
getContext(providedContext) == IF TruthyString(providedContext) THEN providedContext[1] ELSE Cwd

Rejected(tool, providedContext) ==
  /\ Open
  /\ ret' = [BlankRet EXCEPT !.op = "rejected", !.tool = tool, !.provided = providedContext,
                             !.fault = ContextFault]
  /\ UNCHANGED <<insights, insights_fts, clock, uuids, ops, mode, deleted, pages, fixed>>

(* The content of file p.  The statements of the open store write through  *)
(* to its file, so for that file it is the table and the index themselves; *)
(* files keeps what the other files held when they were last left.         *)
FileContent(p) ==
  IF path = Some(p) THEN [tbl |-> insights, fts |-> insights_fts] ELSE files[p]

initSchema_Recreate(exists, content) == EmptyDatabase

(* initSchema: every statement is CREATE ... IF NOT EXISTS, so the objects *)
(* of a file that has them are left as they are                            *)
initSchema(exists, content) == IF exists THEN content ELSE EmptyDatabase

(* new InsightsDatabase(dbPath): dbPath || default, mkdirSync, new Database(path), *)
(* initSchema.  The model follows the store constructed last.              *)
InsightsDatabase(dbPath) ==
  LET p == IF TruthyString(dbPath) THEN dbPath[1] ELSE DefaultPath
      exists == p \in DOMAIN files
      content == initSchema(exists, IF exists THEN FileContent(p) ELSE EmptyDatabase)
  IN /\ Open
     /\ path' = Some(p)
     /\ files' = [q \in DOMAIN files \cup {p} |->
                    IF q = p THEN content ELSE FileContent(q)]
     /\ insights' = content.tbl
     /\ insights_fts' = content.fts
     /\ dbOpen' = TRUE
     /\ ret' = [BlankRet EXCEPT !.op = "open"]
     /\ pages' = NoPages
     /\ UNCHANGED <<clock, uuids, ops, mode, deleted, argv, env, inflight>>

(* close: this.db.close(); closing a closed connection does nothing *)
Close ==
  /\ Open
  /\ dbOpen' = FALSE
  /\ ret' = [BlankRet EXCEPT !.op = "close"]
  /\ pages' = NoPages
  /\ UNCHANGED <<insights, insights_fts, clock, uuids, ops, mode, deleted,
                 argv, env, files, path, inflight>>

(* save-insight: getContext(context), then db.save *)
SaveInsight(content, context, metadata, t) ==
  IF GetContextThrows(context)
  THEN t = clock /\ Rejected("save-insight", context)
  ELSE DbSave(content, getContext(context), metadata, t,
              [BlankRet EXCEPT !.tool = "save-insight", !.provided = context])

(* search-insights: context ? getContext(context) : undefined, then db.search *)
SearchInsights(query, context, limit, offset) ==
  IF TruthyString(context) /\ GetContextThrows(context)
  THEN Rejected("search-insights", context)
  ELSE DbSearch(query, IF TruthyString(context) THEN Some(getContext(context)) ELSE None,
                limit, offset, [BlankRet EXCEPT !.tool = "search-insights", !.provided = context])

(* list-insights: context ? getContext(context) : undefined, then db.list *)
ListInsights(context, limit, offset) ==
  IF TruthyString(context) /\ GetContextThrows(context)
  THEN Rejected("list-insights", context)
  ELSE DbList(IF TruthyString(context) THEN Some(getContext(context)) ELSE None,
              limit, offset, [BlankRet EXCEPT !.tool = "list-insights", !.provided = context])

----------------------------------------------------------------------------
(* The methods of the store statement by statement.  better-sqlite3 runs   *)
(* each statement in its own implicit transaction, and list, search and    *)
(* update run two statements without BEGIN ... COMMIT around them, so a    *)
(* store that another process has opened on the same file can commit a     *)
(* call of its own between the two.  inflight is the call that has run its *)
(* first statement; the calls of the other store are the methods above.    *)

Idle == inflight.op = "none"

(* list, first statement: this.db.prepare(countQuery).get(...params) *)
ListCount(context, limit, offset) ==
  /\ Open /\ Idle
  /\ ~PrepareThrows
  /\ inflight' = [NoCall EXCEPT !.op = "list", !.context = context, !.limit = limit,
                                !.offset = offset,
                                !.total = Cardinality(ListRows(insights, context))]
  /\ UNCHANGED <<insights, insights_fts, clock, uuids, ops, mode, ret, deleted, pages,
                 argv, env, files, path, dbOpen>>

(* list, second statement and return: stmt.all(...params, limit, offset) *)
ListPage ==
  LET results == MapInsights(Window(ListOrder(insights, inflight.context),
                                    inflight.limit, inflight.offset))
  IN /\ inflight.op = "list" /\ ~inflight.done
     /\ ret' = [BlankRet EXCEPT !.op = "list", !.calls = 1, !.context = inflight.context,
                                !.limit = inflight.limit, !.offset = inflight.offset,
                                !.results = results, !.total = inflight.total,
                                !.hasMore = (inflight.offset + Len(results) < inflight.total)]
     /\ inflight' = [inflight EXCEPT !.done = TRUE]
     /\ pages' = NoPages
     /\ UNCHANGED <<insights, insights_fts, clock, uuids, ops, mode, deleted,
                    argv, env, files, path, dbOpen>>

(* search, first statement: this.db.prepare(countSql).get(...countParams) *)
SearchCount(query, context, limit, offset) ==
  /\ Open /\ Idle
  /\ ~PrepareThrows
  /\ IF ~QuerySyntaxOk(query)
     THEN /\ ret' = [BlankRet EXCEPT !.op = "search", !.calls = 1, !.query = Some(query),
                                     !.context = context, !.limit = limit,
                                     !.offset = offset, !.fault = SyntaxFault]
          /\ inflight' = [NoCall EXCEPT !.op = "search", !.done = TRUE]
     ELSE /\ inflight' = [NoCall EXCEPT !.op = "search", !.query = Some(query),
                                        !.context = context, !.limit = limit,
                                        !.offset = offset,
                                        !.total = Cardinality(SearchRows(insights, insights_fts,
                                                                         query, context))]
          /\ ret' = ret
  /\ UNCHANGED <<insights, insights_fts, clock, uuids, ops, mode, deleted, pages,
                 argv, env, files, path, dbOpen>>

(* search, second statement and return: stmt.all(...params, limit, offset) *)
SearchPage ==
  /\ inflight.op = "search" /\ ~inflight.done
  /\ \E order \in Orders(SearchRows(insights, insights_fts, inflight.query[1],
                                     inflight.context)) :
       LET results == MapInsights(Window(order, inflight.limit, inflight.offset))
       IN ret' = [BlankRet EXCEPT !.op = "search", !.calls = 1, !.query = inflight.query,
                                  !.context = inflight.context, !.limit = inflight.limit,
                                  !.offset = inflight.offset,
                                  !.results = results, !.total = inflight.total,
                                  !.hasMore = (inflight.offset + Len(results) < inflight.total)]
  /\ inflight' = [inflight EXCEPT !.done = TRUE]
  /\ UNCHANGED <<insights, insights_fts, clock, uuids, ops, mode, deleted, pages,
                 argv, env, files, path, dbOpen>>

(* update, first statement: const existing = this.get(id); if (!existing) return null *)
UpdateGet(id, content, metadata) ==
  /\ Open /\ Idle
  /\ ~PrepareThrows
  /\ ops < MaxOps
  /\ IF GetRows(insights, id) = {}
     THEN /\ ret' = [BlankRet EXCEPT !.op = "update", !.calls = 1, !.id = id,
                                     !.content = content, !.metadata = metadata]
          /\ ops' = ops + 1
          /\ inflight' = NoCall
     ELSE /\ inflight' = [NoCall EXCEPT
                            !.op = "update", !.id = id, !.content = content,
                            !.metadata = metadata,
                            !.existing = Some(rowToInsight(CHOOSE r \in GetRows(insights, id) : TRUE))]
          /\ UNCHANGED <<ret, ops>>
  /\ UNCHANGED <<insights, insights_fts, clock, uuids, mode, deleted, pages,
                 argv, env, files, path, dbOpen>>

(* update, second statement and return: Date.now(), the merge with         *)
(* existing, UPDATE insights SET ... WHERE id = ?, return {...existing,    *)
(* content, metadata, updated_at: now}.  An UPDATE whose WHERE finds no    *)
(* row changes nothing and raises nothing.                                 *)
UpdateRun(t) ==
  LET id == inflight.id
      existing == inflight.existing[1]
      newContent == MergedContent(inflight.content, existing)
      newMetadata == MergedMetadata(inflight.metadata, existing)
      metadataJson == IF TruthyObject(newMetadata)
                      THEN Some(JSONStringify(newMetadata[1])) ELSE None
      found == GetRows(insights, id) # {}
      row == CHOOSE r \in GetRows(insights, id) : TRUE
      new == UpdatedRow(row, newContent, metadataJson, t)
      tbl == IF found THEN (insights \ {row}) \cup {new} ELSE insights
      trig == IF found THEN insights_au(tbl, insights_fts, new)
              ELSE [fts |-> insights_fts, fault |-> FALSE]
  IN /\ inflight.op = "update"
     /\ Now(t)
     /\ clock' = t
     /\ ops' = ops + 1
     /\ insights' = AfterStatement(trig.fault, insights, tbl)
     /\ insights_fts' = AfterStatement(trig.fault, insights_fts, trig.fts)
     /\ ret' = IF trig.fault
               THEN [BlankRet EXCEPT !.op = "update", !.calls = 1, !.id = id,
                                     !.content = inflight.content,
                                     !.metadata = inflight.metadata,
                                     !.fault = CorruptFault]
               ELSE [BlankRet EXCEPT !.op = "update", !.calls = 1, !.id = id,
                                     !.content = inflight.content,
                                     !.metadata = inflight.metadata,
                                     !.flag = TRUE,
                                     !.results = << [existing EXCEPT
                                                       !.content = newContent,
                                                       !.metadata = newMetadata,
                                                       !.updated_at = t] >>]
     /\ inflight' = NoCall
     /\ UNCHANGED <<uuids, mode, deleted, pages, argv, env, files, path, dbOpen>>

GetInsightOutput_AlwaysFound(insight) == [insight |-> insight, found |-> TRUE]

(* get-insight: { insight: insight || undefined, found: insight !== null } *)
(* of what db.get returned (None for null)                                 *)
GetInsightOutput(insight) == [insight |-> insight, found |-> insight # None]

(* update-insight: { updated: insight !== null, insight: insight || undefined } *)
UpdateInsightOutput(insight) == [updated |-> insight # None, insight |-> insight]

(* delete-insight: { deleted, id } *)
DeleteInsightOutput(isDeleted, id) == [deleted |-> isDeleted, id |-> id]

(* get-insight: db.get(id) *)
GetInsight(id) == DbGet(id, [BlankRet EXCEPT !.tool = "get-insight"])

(* update-insight: db.update(id, { content, metadata }) *)
UpdateInsight(id, content, metadata, t) ==
  DbUpdate(id, content, metadata, t, [BlankRet EXCEPT !.tool = "update-insight"])

(* delete-insight: db.delete(id) *)
DeleteInsight(id) == DbDelete(id, [BlankRet EXCEPT !.tool = "delete-insight"])

(* structuredContent of the call whose record is r: the handler's output   *)
(* object, built from what the store returned (r.results holds the one     *)
(* insight get and update return, r.flag what delete returns)              *)
StructuredContent(r) ==
  CASE r.tool = "get-insight" -> GetInsightOutput(r.results)
    [] r.tool = "update-insight" -> UpdateInsightOutput(r.results)
    [] r.tool = "delete-insight" -> DeleteInsightOutput(r.flag, r.id)

OptionDbPath_EnvFirst(a, e) ==
  IF e.INSIGHTS_MCP_DB_PATH # None THEN e.INSIGHTS_MCP_DB_PATH ELSE a.dbPath

(* options.dbPath: .option('--db-path <path>', ..., process.env.INSIGHTS_MCP_DB_PATH), *)
(* the value of the flag when it is given, else the option's default       *)
OptionDbPath(a, e) == IF a.dbPath # None THEN a.dbPath ELSE e.INSIGHTS_MCP_DB_PATH

Started == path # None

(* the action of the program: new InsightsDatabase(options.dbPath), then   *)
(* createInsightsServer(db, mode) and the transport                        *)
Main == ~Started /\ InsightsDatabase(OptionDbPath(argv, env))

----------------------------------------------------------------------------
(* The specifications.  Spec: a new store whose methods are called       *)
(* directly, as the database test does.  SpecServer: a new store behind    *)
(* the tool handlers of a server created in either mode.                   *)

Times == 0..MaxClock

Init ==
  /\ insights = {}
  /\ insights_fts = EmptyFts
  /\ clock = 0
  /\ uuids = 0
  /\ ops = 0
  /\ mode = "stdio"
  /\ ret = BlankRet
  /\ deleted = {}
  /\ pages = NoPages
  /\ Constructed

Next ==
  \/ \E c \in Contents, x \in Contexts, m \in OptMetadatas, t \in Times : Save(c, x, m, t)
  \/ \E id \in Ids : Get(id)
  \/ \E id \in Ids, c \in OptContents, m \in UpdateMetadatas, t \in Times : Update(id, c, m, t)
  \/ \E id \in Ids : Delete(id)
  \/ \E x \in OptContexts, l \in ListLimits, o \in Offsets : List(x, l, o)
  \/ \E q \in Queries, x \in OptContexts, l \in Limits, o \in Offsets : Search(q, x, l, o)

Spec == Init /\ [][Next]_vars

InitServer ==
  /\ insights = {}
  /\ insights_fts = EmptyFts
  /\ clock = 0
  /\ uuids = 0
  /\ ops = 0
  /\ mode \in {"stdio", "http"}
  /\ ret = BlankRet
  /\ deleted = {}
  /\ pages = NoPages
  /\ Constructed

NextServer ==
  \/ \E c \in Contents, x \in OptContexts, m \in OptMetadatas, t \in Times : SaveInsight(c, x, m, t)
  \/ \E q \in Queries, x \in OptContexts, l \in Limits, o \in Offsets : SearchInsights(q, x, l, o)
  \/ \E x \in OptContexts, l \in ListLimits, o \in Offsets : ListInsights(x, l, o)

SpecServer == InitServer /\ [][NextServer]_vars

(* SpecProcess: the program from its start: the command line and the       *)
(* environment are given, no database file exists yet, and the tools are   *)
(* called once the action of the program has constructed store and server. *)
InitProcess ==
  /\ insights = {}
  /\ insights_fts = EmptyFts
  /\ clock = 0
  /\ uuids = 0
  /\ ops = 0
  /\ mode \in {"stdio", "http"}
  /\ ret = BlankRet
  /\ deleted = {}
  /\ pages = NoPages
  /\ argv \in [dbPath : {None, Some(FlagPath)}]
  /\ env \in [INSIGHTS_MCP_DB_PATH : {None, Some(EnvPath)}]
  /\ files = << >>
  /\ path = None
  /\ dbOpen = FALSE
  /\ inflight = NoCall

NextProcess ==
  \/ Main
  \/ Started /\ \E c \in Contents, x \in {Some(Cwd)}, t \in Times : SaveInsight(c, x, None, t)
  \/ Started /\ \E id \in Ids : GetInsight(id)
  \/ Started /\ \E id \in Ids, c \in OptContents, m \in OptMetadatas, t \in Times :
                   UpdateInsight(id, c, m, t)
  \/ Started /\ \E id \in Ids : DeleteInsight(id)

SpecProcess == InitProcess /\ [][NextProcess]_vars

(* SpecConcurrent: two stores on one file.  The calls of one are taken     *)
(* statement by statement, the calls of the other between them.            *)
NextConcurrent ==
  \/ \E c \in Contents, t \in Times : Save(c, Cwd, None, t)
  \/ \E id \in Ids, c \in OptContents, m \in OptMetadatas, t \in Times : Update(id, c, m, t)
  \/ \E id \in Ids : Delete(id)
  \/ \E l \in Limits : ListCount(None, l, 0)
  \/ ListPage
  \/ \E q \in Contents \cup { <<>> }, l \in Limits : SearchCount(q, None, l, 0)
  \/ SearchPage
  \/ \E id \in Ids, c \in OptContents, m \in OptMetadatas : UpdateGet(id, c, m)
  \/ \E t \in Times : UpdateRun(t)

SpecConcurrent == Init /\ [][NextConcurrent]_vars

(* SpecLifecycle: the store's methods together with close and with the     *)
(* construction of a store on the same or on another file, as the database *)
(* test does around each case.                                             *)
LifecyclePaths == {None, Some(FlagPath)}

NextLifecycle ==
  \/ \E c \in Contents, t \in Times : Save(c, Cwd, None, t)
  \/ \E id \in Ids : Get(id)
  \/ \E id \in Ids, c \in Contents, t \in Times : Update(id, Some(c), None, t)
  \/ \E id \in Ids : Delete(id)
  \/ List(None, 20, 0)
  \/ \E q \in Contents : Search(q, None, 20, 0)
  \/ Close
  \/ \E d \in LifecyclePaths : InsightsDatabase(d)

SpecLifecycle == Init /\ [][NextLifecycle]_vars

----------------------------------------------------------------------------
(* Properties *)

AllRowIds == 1..MaxIds
RowOpt(tbl, rowid) == {r \in tbl : r.rowid = rowid}
HasEntry(fts, rowid) == rowid \in fts.docsize \/ IndexedTerms(fts, rowid) # {}
ResultIds(r) == {r.results[i].id : i \in 1..Len(r.results)}
RowOfId(tbl, id) == CHOOSE r \in tbl : r.id = id

(* the index entry of rowid is what the table holds for rowid: no entry    *)
(* when there is no row, and otherwise the terms of the row's content and  *)
(* of its serialized metadata                                              *)
EntryMirrors(tbl, fts, rowid) ==
  IF RowOpt(tbl, rowid) = {}
  THEN ~HasEntry(fts, rowid)
  ELSE /\ rowid \in fts.docsize
       /\ Postings(fts, rowid).content = TokenSet(Some(RowAt(tbl, rowid).content))
       /\ Postings(fts, rowid).metadata = TokenSet(RowAt(tbl, rowid).metadata)

(* C1: after every completed save, update or delete, each live insight has *)
(* exactly one index entry, keyed by its rowid, whose indexed content and  *)
(* metadata are those of the insight's current content and serialized      *)
(* metadata, and no row that is not live has an index entry.               *)
C1_IndexMatchesTable == \A rowid \in AllRowIds : EntryMirrors(insights, insights_fts, rowid)

(* C2: save, update and delete apply the primary-table write and the index *)
(* write as one step: a step that writes the row of a rowid leaves the     *)
(* index entry of that rowid written to match, and the index entry of a    *)
(* rowid changes only in a step that writes its row.                       *)
C2_RowAndEntryWrittenTogether ==
  [][\A rowid \in AllRowIds :
       /\ RowOpt(insights, rowid) # RowOpt(insights', rowid)
            => EntryMirrors(insights', insights_fts', rowid)
       /\ (Postings(insights_fts, rowid) # Postings(insights_fts', rowid)
           \/ (rowid \in insights_fts.docsize) # (rowid \in insights_fts'.docsize))
            => RowOpt(insights, rowid) # RowOpt(insights', rowid)]_vars

(* a text the FTS5 query parser reads as the conjunction of its own words: *)
(* at least one word, no operator keyword, no punctuation                  *)
PlainWords(text) ==
  /\ Len(text) > 0
  /\ \A i \in 1..Len(text) : IsWord(text[i]) /\ text[i] # "NOT"

(* ret answers a search for the exact content of row, unfiltered or        *)
(* filtered by the row's context, with a window that holds every row       *)
SearchedFor(row) ==
  /\ ret.op = "search"
  /\ ret.query = Some(row.content)
  /\ ret.context = None \/ ret.context = Some(row.context)
  /\ ret.offset = 0
  /\ ret.limit >= Cardinality(insights)

(* C3 as stated: a search whose query is the exact current content of a    *)
(* live insight returns that insight.                                      *)
C3_SearchFindsExactContent ==
  \A row \in insights : SearchedFor(row) => row.id \in ResultIds(ret)

(* C3 as amended: a search whose query is the exact current content of a   *)
(* live insight returns that insight when that content is a text of plain  *)
(* words (no FTS5 operator keyword, no punctuation).                       *)
C3_SearchFindsPlainContent ==
  \A row \in insights :
    SearchedFor(row) /\ PlainWords(row.content) => ret.fault = "" /\ row.id \in ResultIds(ret)

C3_Witness ==
  \E row \in insights :
    /\ SearchedFor(row) /\ PlainWords(row.content)
    /\ row.updated_at # row.created_at
    /\ row.id \in ResultIds(ret)

(* C4: once delete(id) has returned true, no later get, list or search     *)
(* returns an insight with that id.                                        *)
C4_DeletedNeverReturned ==
  ret.op \in {"get", "list", "search"} => ResultIds(ret) \cap deleted = {}

C4_Witness == deleted # {} /\ ret.op = "search" /\ Len(ret.results) > 0

(* the terms of the current content and serialized metadata of a row *)
CurrentTerms(row) == TokenSet(Some(row.content)) \cup TokenSet(row.metadata)

(* C5: search returns an insight only if the query matches its current     *)
(* content or current serialized metadata; a query that matches only what  *)
(* the insight held before an update does not return it.                   *)
C5_SearchMatchesCurrentText ==
  (ret.op = "search" /\ ret.fault = "")
    => \A id \in ResultIds(ret) : Match(ret.query[1], CurrentTerms(RowOfId(insights, id)))

(* C6: list and search with a context return only insights of that context *)
C6_ContextIsolation ==
  \A c \in Contexts :
    (ret.op \in {"list", "search"} /\ ret.context = Some(c))
      => \A i \in 1..Len(ret.results) : ret.results[i].context = c

C6_Witness ==
  /\ ret.op = "search" /\ ret.context = Some("/proj") /\ Len(ret.results) > 0
  /\ \E row \in insights :
       row.context = "global" /\ Match(ret.query[1], IndexedTerms(insights_fts, row.rowid))

(* C7: in HTTP mode a save-insight, search-insights or list-insights call  *)
(* without a context is rejected with the 'context parameter is required   *)
(* in HTTP mode' error before the store is called.                         *)
C7_ContextRequiredInHttp ==
  (/\ mode = "http"
   /\ ret.tool \in {"save-insight", "search-insights", "list-insights"}
   /\ ~TruthyString(ret.provided))
    => ret.fault = ContextFault /\ ret.calls = 0 /\ ret.results = <<>>

(* C8: get(save(c, ctx, m).id) returns content c, context ctx, metadata m  *)
(* (absent when m was absent) and created_at = updated_at, and so does the *)
(* insight that save returned.                                             *)
C8_RoundTrip ==
  [][(ret.op = "save" /\ ret'.op = "get" /\ ret'.id = ret.id)
       => /\ Len(ret'.results) = 1
          /\ ret'.results[1].content = ret.content[1]
          /\ ret'.results[1].context = ret.context[1]
          /\ ret'.results[1].metadata = ret.metadata
          /\ ret'.results[1].created_at = ret'.results[1].updated_at
          /\ ret.results[1] = ret'.results[1]]_vars

C8_Witness ==
  /\ ret.op = "get" /\ ret.flag /\ ops = 1
  /\ ret.results[1].metadata # None

(* C9: delete(id) returns true exactly when a record with that id existed  *)
(* when it was called; a second delete of the same id returns false, does  *)
(* not fault and changes no state.                                         *)
C9_IdempotentDelete ==
  [][ret'.op = "delete"
       => /\ ret'.fault = ""
          /\ ret'.flag = (GetRows(insights, ret'.id) # {})
          /\ ~ret'.flag => UNCHANGED <<insights, insights_fts, clock, uuids, deleted>>
          /\ (ret.op = "delete" /\ ret.id = ret'.id /\ ret.flag) => ~ret'.flag]_vars

C9_Witness == ret.op = "delete" /\ ~ret.flag /\ ret.fault = "" /\ ret.id \in deleted

(* C10: update with metadata omitted leaves the stored metadata unchanged, *)
(* update with content omitted leaves the stored content unchanged, and    *)
(* the returned insight and a following get(id) show the retained value.   *)
C10_PartialUpdateKeepsRest ==
  [][/\ (ret'.op = "update" /\ ret'.flag)
          => LET old == RowOfId(insights, ret'.id)
                 new == RowOfId(insights', ret'.id)
             IN /\ ret'.metadata = None
                     => /\ new.metadata = old.metadata
                        /\ ret'.results[1].metadata = rowToInsight(old).metadata
                /\ ret'.content = None
                     => /\ new.content = old.content
                        /\ ret'.results[1].content = old.content
     /\ (ret'.op = "update" /\ ~ret'.flag) => insights' = insights
     /\ (ret.op = "update" /\ ret.flag /\ ret'.op = "get" /\ ret'.id = ret.id)
          => /\ Len(ret'.results) = 1
             /\ ret'.results[1].content = ret.results[1].content
             /\ ret'.results[1].metadata = ret.results[1].metadata]_vars

C10_Witness ==
  /\ ret.op = "update" /\ ret.flag
  /\ ret.metadata = None /\ ret.content # None
  /\ ret.results[1].metadata # None

(* whether an insight with this id is live *)
Live(tbl, id) == \E r \in tbl : r.id = id

(* C11 as stated: every successful update leaves updated_at strictly       *)
(* greater than it was before the update, also within one clock tick.      *)
C11_UpdatedAtStrictlyForward ==
  [][(ret'.op = "update" /\ ret'.flag)
       => RowOfId(insights', ret'.id).updated_at > RowOfId(insights, ret'.id).updated_at]_vars

(* C11 as amended: every successful update sets updated_at to the time it  *)
(* read from the clock, which is never before the previous updated_at or   *)
(* created_at, and is strictly after both when the clock has advanced      *)
(* since the insight was last written.                                     *)
C11_UpdatedAtIsNow ==
  [][(ret'.op = "update" /\ ret'.flag)
       => LET old == RowOfId(insights, ret'.id)
              new == RowOfId(insights', ret'.id)
          IN /\ new.updated_at = clock'
             /\ ret'.results[1].updated_at = clock'
             /\ new.updated_at >= old.updated_at
             /\ new.updated_at >= new.created_at
             /\ clock' > clock => /\ new.updated_at > old.updated_at
                                  /\ new.updated_at > new.created_at]_vars

C11_Witness ==
  /\ ret.op = "update" /\ ret.flag
  /\ ret.results[1].updated_at > ret.results[1].created_at

(* C12: when update supplies metadata, the stored metadata afterwards is   *)
(* exactly the supplied value (keys of the previous metadata are gone),    *)
(* and the metadata of the index entry is that of the new value.           *)
C12_MetadataReplacedWholesale ==
  [][(ret'.op = "update" /\ ret'.flag /\ ret'.metadata # None)
       => LET new == RowOfId(insights', ret'.id)
          IN /\ new.metadata = Some(JSONStringify(ret'.metadata[1]))
             /\ rowToInsight(new).metadata = ret'.metadata
             /\ ret'.results[1].metadata = ret'.metadata
             /\ Postings(insights_fts', new.rowid).metadata = TokenSet(new.metadata)]_vars

(* C13: id, context and created_at of a live insight never change, and an  *)
(* update changes content, metadata and updated_at of the addressed        *)
(* insight only: every other insight stays as it is and none is added or   *)
(* removed.                                                                *)
C13_UpdateFrame ==
  [][/\ \A id \in Ids : (Live(insights, id) /\ Live(insights', id))
          => /\ Cardinality({r \in insights' : r.id = id}) = 1
             /\ RowOfId(insights', id).context = RowOfId(insights, id).context
             /\ RowOfId(insights', id).created_at = RowOfId(insights, id).created_at
             /\ RowOfId(insights', id).rowid = RowOfId(insights, id).rowid
     /\ ret'.op = "update"
          => /\ \A r \in insights : r.id # ret'.id => r \in insights'
             /\ {r.id : r \in insights'} = {r.id : r \in insights}]_vars

C13_Witness ==
  /\ ret.op = "update" /\ ret.flag /\ Cardinality(insights) = 2
  /\ ret.results[1].updated_at > ret.results[1].created_at

(* C14: get and update on an id that does not exist return null without a  *)
(* fault, and such an update creates no record and leaves the table and    *)
(* the index as they were.                                                 *)
C14_NotFound ==
  [][(ret'.op \in {"get", "update"} /\ ~Live(insights, ret'.id))
       => /\ ret'.fault = "" /\ ~ret'.flag /\ ret'.results = <<>>
          /\ insights' = insights /\ insights_fts' = insights_fts]_vars

C14_Witness ==
  /\ ret.op = "update" /\ ~ret.flag /\ ret.fault = ""
  /\ insights # {} /\ ~Live(insights, ret.id)

(* the live insights a call with this context filter ranges over *)
InContext(tbl, context) == {r \in tbl : context = None \/ r.context = context[1]}

(* C15: reading list(ctx, L, 0), list(ctx, L, L), ... with L >= 1 and no   *)
(* mutation in between yields every insight of the context exactly once,  *)
(* in the order of the full list, and hasMore is false on the page that    *)
(* completes the list and true on every page before it.                    *)
C15_PaginationConsistent ==
  (ret.op = "list" /\ pages.start = 0 /\ ret.limit >= 1)
    => /\ ret.hasMore <=> Len(pages.items) < Cardinality(InContext(insights, ret.context))
       /\ ~ret.hasMore
            => /\ pages.items = MapInsights(ListOrder(insights, ret.context))
               /\ Len(pages.items) = Cardinality(InContext(insights, ret.context))
               /\ {pages.items[i].id : i \in 1..Len(pages.items)}
                    = {r.id : r \in InContext(insights, ret.context)}

C15_Witness ==
  /\ ret.op = "list" /\ pages.start = 0 /\ ret.limit = 1 /\ ret.offset = 1
  /\ ~ret.hasMore /\ Len(pages.items) = 2 /\ ret.context # None

(* C16: the results of list are in created_at descending order, with a     *)
(* context filter and without one.                                         *)
C16_ListNewestFirst ==
  ret.op = "list"
    => \A i \in 1..(Len(ret.results) - 1) :
         ret.results[i].created_at >= ret.results[i + 1].created_at

C16_Witness ==
  /\ ret.op = "list" /\ ret.context # None /\ Len(ret.results) = 2
  /\ ret.results[1].created_at > ret.results[2].created_at
  /\ ret.results[1].id > ret.results[2].id

(* C17: for list and search, total is the number of live insights that     *)
(* match the filter (the context, and for search the query), whatever      *)
(* limit and offset are, and hasMore = (offset + results.length < total).  *)
C17_TotalCountsMatches ==
  (ret.op \in {"list", "search"} /\ ret.fault = "")
    => /\ ret.total = Cardinality({r \in InContext(insights, ret.context) :
                                     ret.op = "search" => Match(ret.query[1], CurrentTerms(r))})
       /\ ret.hasMore = (ret.offset + Len(ret.results) < ret.total)

(* C18: list with limit = 0 returns an empty page, list with an offset at  *)
(* or beyond total returns an empty page with hasMore = false, neither     *)
(* faults, and total is the full matching count in both cases.             *)
C18_BoundaryWindows ==
  ret.op = "list"
    => /\ ret.fault = ""
       /\ ret.total = Cardinality(InContext(insights, ret.context))
       /\ ret.limit = 0 => ret.results = <<>>
       /\ ret.offset >= ret.total => ret.results = <<>> /\ ~ret.hasMore

C18_Witness ==
  /\ ret.op = "list" /\ ret.limit = 0 /\ ret.offset = 1 /\ ret.total = 1
  /\ ret.results = <<>>

(* C19: search with an empty query, or with a query that matches no live   *)
(* insight, returns results = [], total = 0, hasMore = false and raises no *)
(* fault.                                                                  *)
C19_EmptyOrNoMatch ==
  (/\ ret.op = "search"
   /\ \/ ret.query = Some(<<>>)
      \/ /\ PlainWords(ret.query[1])
         /\ \A r \in InContext(insights, ret.context) : ~Match(ret.query[1], CurrentTerms(r)))
    => ret.fault = "" /\ ret.results = <<>> /\ ret.total = 0 /\ ~ret.hasMore

(* a query the FTS5 parser rejects: empty, with punctuation, or with a NOT *)
(* that lacks an operand                                                   *)
Malformed(q) ==
  \/ q = <<>>
  \/ \E i \in 1..Len(q) : q[i] \in Punctuation
  \/ \E i \in 1..Len(q) : q[i] = "NOT" /\ (i = 1 \/ i = Len(q) \/ q[i - 1] = "NOT")

(* C20: a search whose query the engine rejects raises the query-syntax    *)
(* fault, which is neither a result with zero matches nor the storage      *)
(* fault, and the table and the index stay as they were.                   *)
C20_QuerySyntaxFault ==
  [][(ret'.op = "search" /\ Malformed(ret'.query[1]))
       => /\ ret'.fault = SyntaxFault
          /\ ret'.fault \notin {"", CorruptFault, ContextFault}
          /\ ret'.results = <<>>
          /\ insights' = insights /\ insights_fts' = insights_fts]_vars

C20_Witness ==
  /\ ret.op = "search" /\ ret.fault = SyntaxFault
  /\ ret.query = Some(<<"alpha", ",">>) /\ insights # {}

----------------------------------------------------------------------------
(* C21: once close has closed the store, every later save, get, update,    *)
(* delete, list and search fails with a fault: none returns a result, and  *)
(* none changes the table, the index or any file.                          *)
StoreOps == {"save", "get", "update", "delete", "list", "search"}

C21_ClosedStoreFaults ==
  [][(~dbOpen /\ ret'.op \in StoreOps)
       => /\ ret'.fault = NotOpenFault
          /\ ~ret'.flag
          /\ ret'.results = <<>>
          /\ UNCHANGED <<insights, insights_fts, files, deleted>>]_vars

C21_Witness ==
  /\ ~dbOpen
  /\ ret.op = "get"
  /\ ret.fault = NotOpenFault
  /\ Live(insights, ret.id)

----------------------------------------------------------------------------
(* C26: constructing a store on a location that already holds one keeps    *)
(* what it holds: the table and the index after the construction are those *)
(* the file had before it, no insight is there twice, and so every read    *)
(* answers as it did.                                                      *)
NoDuplicates(tbl) ==
  \A r1, r2 \in tbl : (r1.id = r2.id \/ r1.rowid = r2.rowid) => r1 = r2

C26_ReopenKeepsContent ==
  [][(ret'.op = "open" /\ path'[1] \in DOMAIN files)
       => /\ [tbl |-> insights', fts |-> insights_fts'] = FileContent(path'[1])
          /\ NoDuplicates(insights')]_vars

C26_Witness ==
  /\ ret.op = "open"
  /\ dbOpen
  /\ insights # {}
  /\ \A r \in insights : HasEntry(insights_fts, r.rowid)

----------------------------------------------------------------------------
(* C23: a save, update or delete that fails with a storage fault is one    *)
(* attempt: the fault is raised, nothing is returned, and the table and    *)
(* the index are exactly as they were before the call, so an index entry   *)
(* that mirrored its row still does.                                       *)
Mutations == {"save", "update", "delete"}

C23_FaultLeavesStoreUnchanged ==
  [][(ret'.op \in Mutations /\ ret'.fault # "")
       => /\ UNCHANGED <<insights, insights_fts, deleted>>
          /\ ops' = ops + 1
          /\ ret'.calls = 1
          /\ ~ret'.flag
          /\ ret'.results = <<>>]_vars

C23_Witness ==
  /\ ret.op = "update"
  /\ ret.fault = CorruptFault
  /\ Live(insights, ret.id)
  /\ ret.content # None
  /\ RowOfId(insights, ret.id).content # ret.content[1]

----------------------------------------------------------------------------
(* C28: no index entry outlives its insight, also when the row number of a *)
(* deleted insight is given to a later one: once something was deleted, a  *)
(* search returns an insight that was never updated only if the query      *)
(* matches the text that insight was saved with.                           *)
NeverUpdated(insight) == insight.updated_at = insight.created_at

C28_NoEntryOutlivesInsight ==
  (ret.op = "search" /\ ret.fault = "" /\ deleted # {})
    => \A i \in 1..Len(ret.results) :
         NeverUpdated(ret.results[i])
           => Match(ret.query[1], CurrentTerms(RowOfId(insights, ret.results[i].id)))

----------------------------------------------------------------------------
(* C24: in stdio mode a tool call reaches the store with a context: the    *)
(* one the caller supplied, unchanged, or the working directory of the     *)
(* server process when the caller supplied none.                           *)
C24_AbsentContextIsCwd ==
  (/\ mode = "stdio"
   /\ ret.tool \in {"save-insight", "search-insights", "list-insights"}
   /\ ret.calls = 1)
    => ret.context = Some(IF TruthyString(ret.provided) THEN ret.provided[1] ELSE Cwd)

----------------------------------------------------------------------------
(* C25: the database file is the one --db-path names when the flag is      *)
(* given, else the one INSIGHTS_MCP_DB_PATH names when that is set, else   *)
(* ~/.insights-mcp/insights.db; no other file is created.                  *)
ExpectedPath ==
  IF argv.dbPath # None THEN argv.dbPath[1]
  ELSE IF env.INSIGHTS_MCP_DB_PATH # None THEN env.INSIGHTS_MCP_DB_PATH[1]
  ELSE DefaultPath

C25_DbPathPrecedence ==
  /\ Started => path = Some(ExpectedPath) /\ DOMAIN files = {ExpectedPath}
  /\ ~Started => DOMAIN files = {}

C25_Witness ==
  /\ argv.dbPath = Some(FlagPath)
  /\ env.INSIGHTS_MCP_DB_PATH = Some(EnvPath)
  /\ path = Some(FlagPath)
  /\ EnvPath \notin DOMAIN files
  /\ insights # {}

----------------------------------------------------------------------------
(* C27: the tools keep 'not found' apart from a fault.  get-insight        *)
(* answers found = true exactly when it answers an insight, which is when  *)
(* the id is there; update-insight answers updated = true exactly when it  *)
(* answers an insight; delete-insight answers the requested id and what    *)
(* the store's delete returned; and for an id that is not there each of    *)
(* them answers false, without a fault.                                    *)
IdTools == {"get-insight", "update-insight", "delete-insight"}

C27_NotFoundIsAResult ==
  [][ret'.tool \in IdTools
       => /\ ~Live(insights, ret'.id) => ret'.fault = ""
          /\ ret'.fault = "" =>
                LET out == StructuredContent(ret')
                IN CASE ret'.tool = "get-insight" ->
                          /\ out.found <=> out.insight # None
                          /\ out.found <=> Live(insights, ret'.id)
                     [] ret'.tool = "update-insight" ->
                          /\ out.updated <=> out.insight # None
                          /\ out.updated <=> Live(insights, ret'.id)
                     [] ret'.tool = "delete-insight" ->
                          /\ out.deleted = ret'.flag
                          /\ out.id = ret'.id
                          /\ out.deleted <=> Live(insights, ret'.id)]_vars

C27_Witness ==
  /\ ret.tool = "get-insight"
  /\ ret.fault = ""
  /\ ~StructuredContent(ret).found
  /\ StructuredContent(ret).insight = None
  /\ ret.id \in deleted

----------------------------------------------------------------------------
(* C22: a list or search call answers from one state of the store, also    *)
(* when another store on the same file commits during the call: the total  *)
(* and the page belong together, so the page has as many insights as the   *)
(* total leaves for its window, and hasMore says whether more follow.      *)
Min(a, b) == IF a < b THEN a ELSE b
Max(a, b) == IF a > b THEN a ELSE b

C22_OneSnapshotPerCall ==
  (ret.op \in {"list", "search"} /\ ret.fault = "" /\ inflight.done)
    => /\ Len(ret.results) = Min(ret.limit, Max(0, ret.total - ret.offset))
       /\ ret.hasMore <=> (ret.offset + Len(ret.results) < ret.total)

----------------------------------------------------------------------------
(* C29: update is atomic towards the calls of another store on the same    *)
(* file: its write changes only what it was given, so a field it was not   *)
(* given keeps the value it has when the write is applied, and it returns  *)
(* an insight only if the row is there when the write is applied.          *)
C29_UpdateAtomic ==
  [][inflight.op = "update"
       => /\ ret'.flag => Live(insights, inflight.id)
          /\ (Live(insights, inflight.id) /\ Live(insights', inflight.id))
               => /\ inflight.content = None =>
                       RowOfId(insights', inflight.id).content
                         = RowOfId(insights, inflight.id).content
                  /\ inflight.metadata = None =>
                       RowOfId(insights', inflight.id).metadata
                         = RowOfId(insights, inflight.id).metadata]_vars

====
